---- MODULE Spec2Model ----
(***************************************************************************)
(* The N-body GUI: CelestialBody (models/body.py), SimulationState         *)
(* (models/simulation_state.py) and the handlers of the control panel, the *)
(* body editor, the canvas and the application that drive them.            *)
(*                                                                         *)
(* Units.  Lengths are in grid units (one grid unit is far more than the   *)
(* canvas hit tolerance of 0.1 AU, so two grid points never hit the same   *)
(* body), velocities in grid units per time step, masses in ranks          *)
(* (Earth < Jupiter < Sun), time in seconds.  A body is a Python object;   *)
(* its identity is the field id.  None is 0 for a body reference and the   *)
(* empty sequence for the optional Kosmos.                                 *)
(***************************************************************************)
EXTENDS Integers, Sequences, FiniteSets, TLC

\* ---------------------------------------------------------------- bounds
\* Most bodies the model lets exist at once.
MaxBodies == 2
\* Most frames of the animation loop that step the simulation after one
\* entry to playback.
MaxFrames == 2
\* The integrator's coordinates and velocity components stay in -GridLimit..GridLimit.
GridLimit == 2
\* Most zoom_in and zoom_out calls in one run.
MaxZooms == 2
\* Resolution of the fixed-point numbers that stand for physics.py's floats:
\* a value v is held as the integer v * Resolution.
Resolution == 1000

\* ------------------------------------------------------ program constants
\* SimulationState.time_step (never reassigned), seconds.
TimeStep == 3600
\* NBodyApp.animation_steps_per_frame.
AnimationStepsPerFrame == 10
\* The clamp of animation_loop: max(1, min(steps, 1000)).
MinStepsPerFrame == 1
MaxStepsPerFrame == 1000
\* Mass ranks of utils/constants.py.
EarthMass == 1
JupiterMass == 2
SolarMass == 3
\* len(colors) in add_new_body_at_position.
NumColors == 7
\* SimulationCanvas.zoom_level at construction and after reset_view: 3.0,
\* in thousandths.
DefaultZoom == 3000

GOD_MODE == "god"
SIMULATION_MODE == "simulation"

\* The points of the canvas a click or a release can land on.
Points == {<<0, 0>>, <<1, 1>>}
\* Mouse buttons: 1 is the left button.
Buttons == {1, 3}
\* One time warp (1x) in the unit of time_warp, the hundredth.
WarpUnit == 100
\* The time-warp combobox (0.1x and 1x): a part of warp_options.
WarpOptions == {10, 100}
\* Texts typed into the editor's mass entry.
MassTexts == {"abc", "-1", "0", "2"}
\* Texts typed into the editor's name entry (besides leaving the name as shown).
NameTexts == {"X"}

\* -------------------------------------------------------------- helpers
Min(a, b) == IF a < b THEN a ELSE b
Max(a, b) == IF a > b THEN a ELSE b
Range(s) == {s[i] : i \in 1..Len(s)}
Last(s) == s[Len(s)]
Sgn(x) == IF x > 0 THEN 1 ELSE IF x < 0 THEN -1 ELSE 0
Clip(x) == Max(-GridLimit, Min(GridLimit, x))

\* ------------------------------------------------- nbody.Body, nbody.Kosmos
\* nbody.Body(mass, x, y, vx, vy): the integrator's point mass.
NBody(mass, pos, vel) == [mass |-> mass, pos |-> pos, vel |-> vel]

RECURSIVE SumSgn(_, _, _, _)
\* The sum over j <= n, j # i, of the direction (per axis c) from body i to body j.
SumSgn(k, i, c, n) ==
    IF n = 0 THEN 0
    ELSE SumSgn(k, i, c, n - 1)
         + (IF n = i THEN 0 ELSE Sgn(k[n].pos[c] - k[i].pos[c]))

\* Kosmos.step(dt) followed by Kosmos.get_bodies(): same length, same order,
\* masses kept; every body is kicked towards the others and then drifts.
KosmosStep(k, dt) ==
    [i \in 1..Len(k) |->
        LET n  == dt \div TimeStep
            vx == Clip(k[i].vel[1] + n * SumSgn(k, i, 1, Len(k)))
            vy == Clip(k[i].vel[2] + n * SumSgn(k, i, 2, Len(k)))
        IN  NBody(k[i].mass,
                  <<Clip(k[i].pos[1] + n * vx), Clip(k[i].pos[2] + n * vy)>>,
                  <<vx, vy>>)]

\* ------------------------------------------------------- CelestialBody
\* CelestialBody.__init__ (id is the new object's identity).
CelestialBody(id, name, mass, pos, vel, color) ==
    [id |-> id, name |-> name, color |-> color,
     initial_mass |-> mass, initial_position |-> pos, initial_velocity |-> vel,
     nbody_body |-> NBody(mass, pos, vel),
     is_selected |-> FALSE, is_setting_velocity |-> FALSE]

get_position(b) == b.nbody_body.pos
get_velocity(b) == b.nbody_body.vel
get_mass(b) == b.nbody_body.mass

set_position(b, pos) ==
    [b EXCEPT !.nbody_body = NBody(get_mass(b), pos, get_velocity(b))]

set_velocity(b, vel) ==
    [b EXCEPT !.nbody_body = NBody(get_mass(b), get_position(b), vel)]

set_mass(b, mass) ==
    [b EXCEPT !.nbody_body = NBody(mass, get_position(b), get_velocity(b)),
              !.initial_mass = mass]

reset_to_initial(b) ==
    [b EXCEPT !.nbody_body =
        NBody(b.initial_mass, b.initial_position, b.initial_velocity)]

\* (mass, position, velocity) of a body, and its initial snapshot.
Physical(b) == <<get_mass(b), get_position(b), get_velocity(b)>>
InitialSnapshot(b) == <<b.initial_mass, b.initial_position, b.initial_velocity>>

\* ------------------------------------------------------ SimulationState
\* A SimulationState s is the record of its attributes:
\*   bodies, trajectories, kosmos, mode, is_running, time_elapsed.
\* A trajectory point records the position and the body it was read from.
Point(b) == [of |-> b.id, pos |-> get_position(b)]

\* SimulationState.__init__.
NewSimulationState ==
    [bodies |-> <<>>, trajectories |-> <<>>, kosmos |-> <<>>,
     mode |-> GOD_MODE, is_running |-> FALSE, time_elapsed |-> 0]

\* list.index as it would be if bodies compared by value (name, mass,
\* position, velocity): the first index holding a body equal to that one.
IndexOf_ByValue(bs, id) ==
    LET Same(a, b) == /\ a.name = b.name
                      /\ a.nbody_body = b.nbody_body
    IN  IF \E i \in 1..Len(bs) : bs[i].id = id
        THEN LET it == CHOOSE i \in 1..Len(bs) : bs[i].id = id
             IN  CHOOSE i \in 1..Len(bs) :
                    Same(bs[i], bs[it]) /\ \A j \in 1..(i - 1) : ~Same(bs[j], bs[it])
        ELSE 0

\* list.index by identity: the first index holding the body, 0 when absent.
IndexOf(bs, id) ==
    IF \E i \in 1..Len(bs) : bs[i].id = id
    THEN CHOOSE i \in 1..Len(bs) :
            bs[i].id = id /\ \A j \in 1..(i - 1) : bs[j].id # id
    ELSE 0

\* list.pop as it would be if it always took the first element.
Pop_Head(q, i) == Tail(q)

\* list.pop(index), index counted from 1.
Pop(q, i) == [j \in 1..(Len(q) - 1) |-> IF j < i THEN q[j] ELSE q[j + 1]]

add_body(s, b) ==
    [s EXCEPT !.bodies = Append(s.bodies, b),
              !.trajectories = Append(s.trajectories, <<>>)]

\* remove_body as it would be without its membership test, an absent body
\* taking the last one with it.
remove_body_Unguarded(s, id) ==
    LET found == IndexOf(s.bodies, id)
        index == IF found = 0 THEN Len(s.bodies) ELSE found
    IN  IF index = 0 THEN s
        ELSE [s EXCEPT !.bodies = Pop(s.bodies, index),
                       !.trajectories = Pop(s.trajectories, index)]

\* remove_body as it would be if it forgot the trajectory.
remove_body_KeepTrajectory(s, id) ==
    LET index == IndexOf(s.bodies, id)
    IN  IF index = 0 THEN s
        ELSE [s EXCEPT !.bodies = Pop(s.bodies, index)]

remove_body(s, id) ==
    LET index == IndexOf(s.bodies, id)
    IN  IF index = 0 THEN s
        ELSE [s EXCEPT !.bodies = Pop(s.bodies, index),
                       !.trajectories = Pop(s.trajectories, index)]

\* The index of the first selected body, 0 for None.
get_selected_body(s) ==
    IF \E i \in 1..Len(s.bodies) : s.bodies[i].is_selected
    THEN CHOOSE i \in 1..Len(s.bodies) :
            s.bodies[i].is_selected
            /\ \A j \in 1..(i - 1) : ~s.bodies[j].is_selected
    ELSE 0

\* deselect_all as it would be if it cleared nothing.
deselect_all_Nothing(s) == s

deselect_all(s) ==
    [s EXCEPT !.bodies =
        [i \in 1..Len(s.bodies) |-> [s.bodies[i] EXCEPT !.is_selected = FALSE]]]

\* switch_to_simulation_mode as it would be if it seeded the Kosmos in
\* reverse order.
switch_to_simulation_mode_Reversed(s) ==
    IF s.mode = SIMULATION_MODE THEN s
    ELSE [s EXCEPT
            !.kosmos = <<[i \in 1..Len(s.bodies) |->
                            s.bodies[Len(s.bodies) + 1 - i].nbody_body]>>,
            !.trajectories =
                [i \in 1..Len(s.trajectories) |->
                    IF i <= Len(s.bodies) THEN <<Point(s.bodies[i])>>
                    ELSE s.trajectories[i]],
            !.mode = SIMULATION_MODE,
            !.time_elapsed = 0]

\* switch_to_simulation_mode as it would be without its early return.
switch_to_simulation_mode_Unguarded(s) ==
    [s EXCEPT
        !.kosmos = <<[i \in 1..Len(s.bodies) |-> s.bodies[i].nbody_body]>>,
        !.trajectories =
            [i \in 1..Len(s.trajectories) |->
                IF i <= Len(s.bodies) THEN <<Point(s.bodies[i])>>
                ELSE s.trajectories[i]],
        !.mode = SIMULATION_MODE,
        !.time_elapsed = 0]

switch_to_simulation_mode(s) ==
    IF s.mode = SIMULATION_MODE THEN s
    ELSE [s EXCEPT
            !.kosmos = <<[i \in 1..Len(s.bodies) |-> s.bodies[i].nbody_body]>>,
            !.trajectories =
                [i \in 1..Len(s.trajectories) |->
                    IF i <= Len(s.bodies) THEN <<Point(s.bodies[i])>>
                    ELSE s.trajectories[i]],
            !.mode = SIMULATION_MODE,
            !.time_elapsed = 0]

\* switch_to_god_mode as it would be if it rebuilt the list back to front.
switch_to_god_mode_Reversed(s) ==
    IF s.mode = GOD_MODE THEN s
    ELSE [s EXCEPT
            !.mode = GOD_MODE,
            !.is_running = FALSE,
            !.kosmos = <<>>,
            !.bodies = [i \in 1..Len(s.bodies) |->
                            reset_to_initial(s.bodies[Len(s.bodies) + 1 - i])],
            !.trajectories = [i \in 1..Len(s.bodies) |-> <<>>],
            !.time_elapsed = 0]

\* switch_to_god_mode as it would be if it left the bodies where the
\* simulation took them.
switch_to_god_mode_NoReset(s) ==
    IF s.mode = GOD_MODE THEN s
    ELSE [s EXCEPT
            !.mode = GOD_MODE,
            !.is_running = FALSE,
            !.kosmos = <<>>,
            !.trajectories = [i \in 1..Len(s.bodies) |-> <<>>],
            !.time_elapsed = 0]

switch_to_god_mode(s) ==
    IF s.mode = GOD_MODE THEN s
    ELSE [s EXCEPT
            !.mode = GOD_MODE,
            !.is_running = FALSE,
            !.kosmos = <<>>,
            !.bodies = [i \in 1..Len(s.bodies) |-> reset_to_initial(s.bodies[i])],
            !.trajectories = [i \in 1..Len(s.bodies) |-> <<>>],
            !.time_elapsed = 0]

\* The loop of step_simulation as it would be if it recorded the position
\* before taking the updated body.
StepBodies_StalePoint(s, updated) ==
    LET n == Min(Len(s.bodies), Len(updated))
    IN  [s EXCEPT
            !.bodies = [i \in 1..Len(s.bodies) |->
                            IF i <= n
                            THEN [s.bodies[i] EXCEPT !.nbody_body = updated[i]]
                            ELSE s.bodies[i]],
            !.trajectories = [i \in 1..Len(s.trajectories) |->
                            IF i <= n
                            THEN Append(s.trajectories[i], Point(s.bodies[i]))
                            ELSE s.trajectories[i]]]

\* The loop of step_simulation over the first n bodies: body i takes
\* updated_bodies[i] and its new position is appended to trajectories[i].
\* When bodies is longer than updated_bodies the loop stops at the first
\* missing index (IndexError), the earlier bodies already updated.
StepBodies(s, updated) ==
    LET n == Min(Len(s.bodies), Len(updated))
        nb(i) == [s.bodies[i] EXCEPT !.nbody_body = updated[i]]
    IN  [s EXCEPT
            !.bodies = [i \in 1..Len(s.bodies) |->
                            IF i <= n THEN nb(i) ELSE s.bodies[i]],
            !.trajectories = [i \in 1..Len(s.trajectories) |->
                            IF i <= n THEN Append(s.trajectories[i], Point(nb(i)))
                            ELSE s.trajectories[i]]]

\* The loop of step_simulation after its first k rounds: bodies 1..k hold
\* their updated state and trajectories 1..k their new point; the others are
\* as they were.
LoopState(s, updated, k) ==
    LET nb(i) == [s.bodies[i] EXCEPT !.nbody_body = updated[i]]
    IN  [s EXCEPT
            !.bodies = [i \in 1..Len(s.bodies) |->
                            IF i <= k THEN nb(i) ELSE s.bodies[i]],
            !.trajectories = [i \in 1..Len(s.trajectories) |->
                            IF i <= k THEN Append(s.trajectories[i], Point(nb(i)))
                            ELSE s.trajectories[i]]]

\* step_simulation as it would be if it advanced time_elapsed before it
\* called the integrator, the call raising.
step_simulation_raising_ClockFirst(s, k) ==
    IF s.mode # SIMULATION_MODE \/ s.kosmos = <<>> THEN s
    ELSE [s EXCEPT !.kosmos = <<k>>,
                   !.time_elapsed = s.time_elapsed + TimeStep]

\* step_simulation when self.kosmos.step raises, the Kosmos left holding k:
\* no statement after the call runs.
step_simulation_raising(s, k) ==
    IF s.mode # SIMULATION_MODE \/ s.kosmos = <<>> THEN s
    ELSE [s EXCEPT !.kosmos = <<k>>]

\* step_simulation as it would be if it did not advance time_elapsed.
step_simulation_NoClock(s) ==
    IF s.mode # SIMULATION_MODE \/ s.kosmos = <<>> THEN s
    ELSE LET updated == KosmosStep(s.kosmos[1], TimeStep)
         IN  StepBodies([s EXCEPT !.kosmos = <<updated>>], updated)

step_simulation(s) ==
    IF s.mode # SIMULATION_MODE \/ s.kosmos = <<>> THEN s
    ELSE LET updated == KosmosStep(s.kosmos[1], TimeStep)
         IN  StepBodies([s EXCEPT !.kosmos = <<updated>>,
                                  !.time_elapsed = s.time_elapsed + TimeStep],
                        updated)

\* clear_all as it would be if it left the simulation running.
clear_all_KeepRunning(s) ==
    [s EXCEPT !.bodies = <<>>, !.trajectories = <<>>, !.kosmos = <<>>,
              !.time_elapsed = 0, !.mode = GOD_MODE]

\* clear_all as it would be if it kept the Kosmos.
clear_all_KeepKosmos(s) ==
    [s EXCEPT !.bodies = <<>>, !.trajectories = <<>>,
              !.is_running = FALSE, !.time_elapsed = 0, !.mode = GOD_MODE]

clear_all(s) ==
    [s EXCEPT !.bodies = <<>>, !.trajectories = <<>>, !.kosmos = <<>>,
              !.is_running = FALSE, !.time_elapsed = 0, !.mode = GOD_MODE]

\* StepN(s, n): n consecutive step_simulation calls (the loop of animation_loop).
RECURSIVE StepN(_, _)
StepN(s, n) == IF n = 0 THEN s ELSE StepN(step_simulation(s), n - 1)

\* ------------------------------------------------------------ presets
\* ScenarioPresets: literal bodies (name, mass, position, velocity, colour),
\* positions and velocities rounded to the grid.
PresetIds == {"binary_stars", "figure_8"}

PresetData(p) ==
    IF p = "binary_stars"
    THEN << <<"Star A", SolarMass, <<-1, 0>>, <<0, -1>>, 0>>,
            <<"Star B", SolarMass, <<1, 0>>, <<0, 1>>, 1>> >>
    ELSE << <<"Body 1", SolarMass, <<-1, 0>>, <<0, -1>>, 0>>,
            <<"Body 2", SolarMass, <<1, 0>>, <<0, 1>>, 1>>,
            <<"Body 3", SolarMass, <<0, 2>>, <<-1, 0>>, 2>> >>

\* ---------------------------------------------------------- utils.physics
\* Floats are fixed-point integers (thousandths).  Division and multiplication
\* round towards zero, so that, as in IEEE arithmetic, negating an operand
\* negates the result; the square root rounds down.
Abs(x) == IF x < 0 THEN -x ELSE x

TDiv(a, b) ==
    IF (a >= 0) = (b > 0) THEN Abs(a) \div Abs(b) ELSE -(Abs(a) \div Abs(b))

Fx(n) == n * Resolution
FMul(a, b) == TDiv(a * b, Resolution)
FDiv(a, b) == TDiv(a * Resolution, b)

RECURSIVE SqrtBetween(_, _, _)
SqrtBetween(n, lo, hi) ==
    IF lo = hi THEN lo
    ELSE LET mid == (lo + hi + 1) \div 2
         IN  IF mid * mid <= n THEN SqrtBetween(n, mid, hi)
             ELSE SqrtBetween(n, lo, mid - 1)

\* math.sqrt of a fixed-point number that is not negative.
FSqrt(a) == SqrtBetween(a * Resolution, 0, Min(a * Resolution, 46340))

\* The gravitational constant in the model's units.
G == 4 * Resolution

\* calculate_orbital_velocity as it would be if a distance of 0 or less were
\* taken for one unit of distance.
calculate_orbital_velocity_NoGuard(central_mass, orbiting_mass, distance, g) ==
    LET total_mass == central_mass + orbiting_mass
    IN  FSqrt(FDiv(FMul(g, total_mass), Max(distance, Fx(1))))

\* calculate_orbital_velocity(central_mass, orbiting_mass, distance, G)
calculate_orbital_velocity(central_mass, orbiting_mass, distance, g) ==
    IF distance <= 0 THEN 0
    ELSE LET total_mass == central_mass + orbiting_mass
         IN  FSqrt(FDiv(FMul(g, total_mass), distance))

\* calculate_escape_velocity(mass, distance, G)
calculate_escape_velocity(mass, distance, g) ==
    IF distance <= 0 THEN 0
    ELSE FSqrt(FDiv(FMul(2 * g, mass), distance))

\* calculate_orbital_velocity_vector as it would be if the clockwise branch
\* negated only the y component's factor.
calculate_orbital_velocity_vector_Unmirrored(central_pos, orbiting_pos, central_mass, orbiting_mass, g, clockwise) ==
    LET dx == orbiting_pos[1] - central_pos[1]
        dy == orbiting_pos[2] - central_pos[2]
        distance == FSqrt(FMul(dx, dx) + FMul(dy, dy))
        speed == calculate_orbital_velocity(central_mass, orbiting_mass,
                                            distance, g)
        dx_norm == FDiv(dx, distance)
        dy_norm == FDiv(dy, distance)
    IN  IF distance = 0 THEN <<0, 0>>
        ELSE IF clockwise THEN <<FMul(speed, dy_norm), FMul(-speed, dx_norm)>>
        ELSE <<FMul(speed, dy_norm), FMul(speed, dx_norm)>>

\* calculate_orbital_velocity_vector(central_pos, orbiting_pos, central_mass,
\*                                   orbiting_mass, G, clockwise)
calculate_orbital_velocity_vector(central_pos, orbiting_pos, central_mass, orbiting_mass, g, clockwise) ==
    LET dx == orbiting_pos[1] - central_pos[1]
        dy == orbiting_pos[2] - central_pos[2]
        distance == FSqrt(FMul(dx, dx) + FMul(dy, dy))
        speed == calculate_orbital_velocity(central_mass, orbiting_mass,
                                            distance, g)
        dx_norm == FDiv(dx, distance)
        dy_norm == FDiv(dy, distance)
    IN  IF distance = 0 THEN <<0, 0>>
        ELSE IF clockwise THEN <<FMul(speed, dy_norm), FMul(-speed, dx_norm)>>
        ELSE <<FMul(-speed, dy_norm), FMul(speed, dx_norm)>>

\* ---------------------------------------------------------------- state
VARIABLES
    \* SimulationState
    bodies, trajectories, kosmos, mode, is_running, time_elapsed,
    time_warp,                  \* in hundredths: 100 is 1x
    \* BodyEditorPanel
    current_body,               \* id of the edited body, 0 for None
    editor_shown,               \* the panel's frame is packed
    auto_orbit_enabled, auto_orbit_target, is_selecting_orbit_target,
    \* SimulationCanvas
    is_dragging_arrow,
    is_panning,
    auto_zoom_to_cog, capture_all_bodies, focus_body_mode,
    focused_body,               \* id of the focused body, 0 for None
    zoom_level,                 \* in thousandths of an AU multiplier
    zooms,                      \* history: zoom_in and zoom_out calls made
    \* ControlPanel: which buttons are enabled (tk.NORMAL)
    start_enabled, play_pause_enabled, stop_enabled, clear_enabled,
    \* history: step_simulation calls made, and frames that made them, in
    \* the current playback session (0 outside playback)
    step_calls, frames,
    \* utils.physics: the arguments of the calls under way and what the
    \* calls made so far returned (<<>> for a call not made)
    physics_args, physics_results,
    \* NBodyApp: the animation loop is on, and its timer callback is pending
    animation_running, loop_scheduled

simVars == <<bodies, trajectories, kosmos, mode, is_running, time_elapsed>>
editorVars == <<current_body, editor_shown, auto_orbit_enabled,
                auto_orbit_target, is_selecting_orbit_target>>
buttonVars == <<start_enabled, play_pause_enabled, stop_enabled, clear_enabled>>
history == <<step_calls, frames>>
cameraVars == <<is_panning, auto_zoom_to_cog, capture_all_bodies,
                focus_body_mode, focused_body, zoom_level, zooms>>
physicsVars == <<physics_args, physics_results>>
loopVars == <<animation_running, loop_scheduled>>
vars == <<simVars, time_warp, editorVars, is_dragging_arrow, buttonVars,
          history, cameraVars, physicsVars, loopVars>>

\* The SimulationState object as a record, and its assignment.
SimState ==
    [bodies |-> bodies, trajectories |-> trajectories, kosmos |-> kosmos,
     mode |-> mode, is_running |-> is_running, time_elapsed |-> time_elapsed]

SetSim(s) ==
    /\ bodies' = s.bodies
    /\ trajectories' = s.trajectories
    /\ kosmos' = s.kosmos
    /\ mode' = s.mode
    /\ is_running' = s.is_running
    /\ time_elapsed' = s.time_elapsed

\* The application's objects after construction.
Constructed ==
    /\ bodies = NewSimulationState.bodies
    /\ trajectories = NewSimulationState.trajectories
    /\ kosmos = NewSimulationState.kosmos
    /\ mode = NewSimulationState.mode
    /\ is_running = NewSimulationState.is_running
    /\ time_elapsed = NewSimulationState.time_elapsed
    /\ time_warp = WarpUnit
    /\ current_body = 0
    /\ editor_shown = TRUE
    /\ auto_orbit_enabled = FALSE
    /\ auto_orbit_target = 0
    /\ is_selecting_orbit_target = FALSE
    /\ is_dragging_arrow = FALSE
    /\ start_enabled = TRUE
    /\ play_pause_enabled = FALSE
    /\ stop_enabled = FALSE
    /\ clear_enabled = TRUE
    /\ step_calls = 0
    /\ frames = 0
    /\ is_panning = FALSE
    /\ auto_zoom_to_cog = FALSE
    /\ capture_all_bodies = FALSE
    /\ focus_body_mode = FALSE
    /\ focused_body = 0
    /\ zoom_level = DefaultZoom
    /\ zooms = 0
    /\ animation_running = TRUE
    /\ loop_scheduled = TRUE

\* No call of utils.physics is under way and none has been made.
NoArgs ==
    [central_pos |-> <<0, 0>>, orbiting_pos |-> <<0, 0>>, central_mass |-> 0,
     orbiting_mass |-> 0, distance |-> 0]
NoResults ==
    [orbital_velocity |-> <<>>, escape_velocity |-> <<>>,
     vector |-> <<>>, vector_clockwise |-> <<>>]

Init ==
    /\ Constructed
    /\ physics_args = NoArgs
    /\ physics_results = NoResults

\* ------------------------------------------------------------ helpers
\* Object identities in use: the listed bodies and the references the editor
\* and the canvas hold.
UsedIds ==
    {bodies[i].id : i \in 1..Len(bodies)}
        \cup {current_body, auto_orbit_target, focused_body}

\* The k-th smallest identity that is not in used (a new object's identity).
RECURSIVE FreshId(_, _)
FreshId(used, k) ==
    LET least == CHOOSE n \in 1..(Cardinality(used) + 1) :
                    n \notin used /\ \A m \in 1..(n - 1) : m \in used
    IN  IF k = 1 THEN least ELSE FreshId(used \cup {least}, k - 1)

\* SimulationCanvas.find_body_at_position: index of the first body at p, 0 for None.
find_body_at_position(bs, p) ==
    IF \E i \in 1..Len(bs) : get_position(bs[i]) = p
    THEN CHOOSE i \in 1..Len(bs) :
            get_position(bs[i]) = p
            /\ \A j \in 1..(i - 1) : get_position(bs[j]) # p
    ELSE 0

\* float(text) and the check mass <= 0 of apply_changes: ok is FALSE when
\* float raises ValueError.
ParseFloat(text) ==
    CASE text = "-1" -> [ok |-> TRUE, value |-> -1]
      [] text = "0"  -> [ok |-> TRUE, value |-> 0]
      [] text = "2"  -> [ok |-> TRUE, value |-> 2]
      [] OTHER       -> [ok |-> FALSE, value |-> 0]

\* int(animation_steps_per_frame * time_warp) clamped to 1..1000.
StepsPerFrame(warp) ==
    Max(MinStepsPerFrame,
        Min((AnimationStepsPerFrame * warp) \div WarpUnit, MaxStepsPerFrame))

\* "Body n".
BodyName(n) == "Body " \o ToString(n)

\* ------------------------------------------------------- the canvas's view
\* The view centre and the frame counter are not part of the state.  The
\* camera update of render is an operator on a view record (frame_counter,
\* center in thousandths of a grid unit, zoom_level and the tracking
\* fields); a handler that ends in render takes the zoom level render leaves,
\* whatever the frame counter is.

\* One astronomical unit: a grid unit.
AU == Fx(1)

\* The values frame_counter % 10 has before a render.
FrameCounters == 0..9

RECURSIVE TotalMass(_)
TotalMass(bs) ==
    IF bs = <<>> THEN 0 ELSE get_mass(Head(bs)) + TotalMass(Tail(bs))

\* The sum of mass * x (axis 1) or mass * y (axis 2).
RECURSIVE Moment(_, _)
Moment(bs, axis) ==
    IF bs = <<>> THEN 0
    ELSE get_mass(Head(bs)) * Fx(get_position(Head(bs))[axis])
            + Moment(Tail(bs), axis)

\* SimulationCanvas.center_to_cog
center_to_cog(view, bs) ==
    IF bs = <<>> THEN view
    ELSE LET total_mass == TotalMass(bs)
             cog_x == Moment(bs, 1)
             cog_y == Moment(bs, 2)
         IN  IF total_mass > 0
             THEN [view EXCEPT !.center = <<TDiv(cog_x, total_mass),
                                            TDiv(cog_y, total_mass)>>]
             ELSE view

\* zoom_to_capture_all as it would be without the padding.
zoom_to_capture_all_NoPadding(view, bs) ==
    IF bs = <<>> THEN view
    ELSE LET Coords(axis) ==
                 {Fx(get_position(bs[i])[axis]) : i \in 1..Len(bs)}
             Least(S) == CHOOSE x \in S : \A y \in S : x <= y
             Most(S) == CHOOSE x \in S : \A y \in S : x >= y
             min_x == Least(Coords(1))
             max_x == Most(Coords(1))
             min_y == Least(Coords(2))
             max_y == Most(Coords(2))
             max_span == Max(TDiv(max_x - min_x, 2), TDiv(max_y - min_y, 2))
         IN  [view EXCEPT
                !.center = <<TDiv(min_x + max_x, 2), TDiv(min_y + max_y, 2)>>,
                !.zoom_level = IF max_span > 0 THEN FDiv(max_span, AU)
                               ELSE DefaultZoom]

\* zoom_to_capture_all as it would be if the padding were taken off the
\* box instead of added to it.
zoom_to_capture_all_Shrunk(view, bs) ==
    IF bs = <<>> THEN view
    ELSE LET Coords(axis) ==
                 {Fx(get_position(bs[i])[axis]) : i \in 1..Len(bs)}
             Least(S) == CHOOSE x \in S : \A y \in S : x <= y
             Most(S) == CHOOSE x \in S : \A y \in S : x >= y
             x_range == Most(Coords(1)) - Least(Coords(1))
             y_range == Most(Coords(2)) - Least(Coords(2))
             min_x == Least(Coords(1)) + TDiv(x_range * 2, 10)
             max_x == Most(Coords(1)) - TDiv(x_range * 2, 10)
             min_y == Least(Coords(2)) + TDiv(y_range * 2, 10)
             max_y == Most(Coords(2)) - TDiv(y_range * 2, 10)
             max_span == Max(TDiv(max_x - min_x, 2), TDiv(max_y - min_y, 2))
         IN  [view EXCEPT
                !.center = <<TDiv(min_x + max_x, 2), TDiv(min_y + max_y, 2)>>,
                !.zoom_level = IF max_span > 0 THEN FDiv(max_span, AU)
                               ELSE DefaultZoom]

\* SimulationCanvas.zoom_to_capture_all
zoom_to_capture_all(view, bs) ==
    IF bs = <<>> THEN view
    ELSE LET Coords(axis) ==
                 {Fx(get_position(bs[i])[axis]) : i \in 1..Len(bs)}
             Least(S) == CHOOSE x \in S : \A y \in S : x <= y
             Most(S) == CHOOSE x \in S : \A y \in S : x >= y
             x_range == Most(Coords(1)) - Least(Coords(1))
             y_range == Most(Coords(2)) - Least(Coords(2))
             min_x == Least(Coords(1)) - TDiv(x_range * 2, 10)
             max_x == Most(Coords(1)) + TDiv(x_range * 2, 10)
             min_y == Least(Coords(2)) - TDiv(y_range * 2, 10)
             max_y == Most(Coords(2)) + TDiv(y_range * 2, 10)
             x_span == TDiv(max_x - min_x, 2)
             y_span == TDiv(max_y - min_y, 2)
             max_span == Max(x_span, y_span)
         IN  [view EXCEPT
                !.center = <<TDiv(min_x + max_x, 2), TDiv(min_y + max_y, 2)>>,
                !.zoom_level = IF max_span > 0 THEN FDiv(max_span, AU)
                               ELSE DefaultZoom]

\* render as it would be if the centre of gravity were followed on every
\* frame.
render_EveryFrame(view, s) ==
    IF s.mode # SIMULATION_MODE THEN view
    ELSE LET v == [view EXCEPT !.frame_counter = @ + 1]
         IN  IF /\ v.focus_body_mode
                /\ v.focused_body # 0
                /\ \E i \in 1..Len(s.bodies) : s.bodies[i].id = v.focused_body
             THEN LET b == s.bodies[IndexOf(s.bodies, v.focused_body)]
                  IN  [v EXCEPT !.center = <<Fx(get_position(b)[1]),
                                             Fx(get_position(b)[2])>>]
             ELSE IF v.auto_zoom_to_cog
             THEN center_to_cog(v, s.bodies)
             ELSE IF v.capture_all_bodies
             THEN zoom_to_capture_all(v, s.bodies)
             ELSE v

\* SimulationCanvas.render: the camera update (simulation mode only).
render(view, s) ==
    IF s.mode # SIMULATION_MODE THEN view
    ELSE LET v == [view EXCEPT !.frame_counter = @ + 1]
         IN  IF /\ v.focus_body_mode
                /\ v.focused_body # 0
                /\ \E i \in 1..Len(s.bodies) : s.bodies[i].id = v.focused_body
             THEN LET b == s.bodies[IndexOf(s.bodies, v.focused_body)]
                  IN  [v EXCEPT !.center = <<Fx(get_position(b)[1]),
                                             Fx(get_position(b)[2])>>]
             ELSE IF v.auto_zoom_to_cog /\ v.frame_counter % 10 = 0
             THEN center_to_cog(v, s.bodies)
             ELSE IF v.capture_all_bodies
             THEN zoom_to_capture_all(v, s.bodies)
             ELSE v

\* The canvas's fields as a view record, for a frame counter, a centre and
\* a zoom level.
View(frame_counter, center, zoom) ==
    [frame_counter |-> frame_counter, center |-> center, zoom_level |-> zoom,
     auto_zoom_to_cog |-> auto_zoom_to_cog,
     capture_all_bodies |-> capture_all_bodies,
     focus_body_mode |-> focus_body_mode, focused_body |-> focused_body]

\* The zoom levels a render can leave when it finds zoom level zoom and
\* simulation state s.
RenderedZooms(zoom, s) ==
    {render(View(n, <<0, 0>>, zoom), s).zoom_level : n \in FrameCounters}

\* The camera's fields that no render changes.
cameraButZoom == <<is_panning, auto_zoom_to_cog, capture_all_bodies,
                   focus_body_mode, focused_body, zooms>>

\* ---------------------------------------------------------- the canvas
\* add_new_body_at_position: the new body is appended, selected alone and
\* shown in the editor.
add_new_body_at_position(s, id, p) ==
    LET body_num == Len(s.bodies) + 1
        new_body == CelestialBody(id, BodyName(body_num), EarthMass, p,
                                  <<0, 0>>, body_num % NumColors)
        added    == deselect_all(add_body(s, new_body))
    IN  [added EXCEPT !.bodies[body_num].is_selected = TRUE]

\* on_mouse_click.  In simulation mode a left click starts a pan of the view.
CanvasClick(p, button) ==
    LET clicked  == find_body_at_position(bodies, p)
        selected == get_selected_body(SimState)
    IN
    IF mode # GOD_MODE
    THEN /\ is_panning' = (is_panning \/ button = 1)
         /\ UNCHANGED <<simVars, time_warp, editorVars, is_dragging_arrow,
                        buttonVars, history, auto_zoom_to_cog,
                        capture_all_bodies, focus_body_mode, focused_body,
                        zoom_level, zooms,
                     physicsVars, loopVars>>
    ELSE IF is_selecting_orbit_target
    THEN \* set_orbit_target(clicked_body), or the selection is refused
         /\ is_selecting_orbit_target' = (clicked = 0)
         /\ auto_orbit_target' =
                IF clicked # 0 /\ bodies[clicked].id # current_body
                THEN bodies[clicked].id ELSE auto_orbit_target
         /\ UNCHANGED <<simVars, time_warp, current_body, editor_shown,
                        auto_orbit_enabled, is_dragging_arrow, buttonVars,
                        history, cameraVars,
                     physicsVars, loopVars>>
    ELSE IF selected # 0 /\ bodies[selected].is_setting_velocity
    THEN /\ is_dragging_arrow' = TRUE
         /\ UNCHANGED <<simVars, time_warp, editorVars, buttonVars, history, cameraVars,
                     physicsVars, loopVars>>
    ELSE IF clicked # 0
    THEN /\ bodies' = [deselect_all(SimState).bodies
                            EXCEPT ![clicked].is_selected = TRUE]
         /\ current_body' = bodies[clicked].id
         /\ UNCHANGED <<trajectories, kosmos, mode, is_running, time_elapsed,
                        time_warp, editor_shown, auto_orbit_enabled,
                        auto_orbit_target, is_selecting_orbit_target,
                        is_dragging_arrow, buttonVars, history, cameraVars,
                     physicsVars, loopVars>>
    ELSE IF button = 1
    THEN /\ Len(bodies) < MaxBodies
         /\ LET id == FreshId(UsedIds, 1)
            IN  /\ SetSim(add_new_body_at_position(SimState, id, p))
                /\ current_body' = id
         /\ UNCHANGED <<time_warp, editor_shown, auto_orbit_enabled,
                        auto_orbit_target, is_selecting_orbit_target,
                        is_dragging_arrow, buttonVars, history, cameraVars,
                     physicsVars, loopVars>>
    ELSE UNCHANGED vars

\* on_mouse_release inside the axes.  The velocity arrow from the body to the
\* release point becomes the body's velocity (one grid unit of arrow is one
\* velocity unit).  In simulation mode a release only ends a pan.
MouseRelease(p) ==
    LET selected == get_selected_body(SimState)
    IN
    IF mode = SIMULATION_MODE /\ is_panning
    THEN /\ is_panning' = FALSE
         /\ UNCHANGED <<simVars, time_warp, editorVars, is_dragging_arrow,
                        buttonVars, history, auto_zoom_to_cog,
                        capture_all_bodies, focus_body_mode, focused_body,
                        zoom_level, zooms,
                     physicsVars, loopVars>>
    ELSE
    IF /\ mode = GOD_MODE
       /\ selected # 0
       /\ bodies[selected].is_setting_velocity
       /\ is_dragging_arrow
    THEN LET start == get_position(bodies[selected])
             vel   == <<p[1] - start[1], p[2] - start[2]>>
         IN  /\ bodies' = [bodies EXCEPT
                              ![selected] = set_velocity(bodies[selected], vel)]
             /\ current_body' = bodies[selected].id
             /\ is_dragging_arrow' = FALSE
             /\ UNCHANGED <<trajectories, kosmos, mode, is_running,
                            time_elapsed, time_warp, editor_shown,
                            auto_orbit_enabled, auto_orbit_target,
                            is_selecting_orbit_target, buttonVars, history, cameraVars,
                     physicsVars, loopVars>>
    ELSE UNCHANGED vars

\* ------------------------------------------------------ the body editor
\* The editor's buttons can be pressed when its frame is packed and a body is set.
EditorUsable == editor_shown /\ current_body # 0

\* apply_changes on body b: the name is assigned first; float() or the check
\* mass <= 0 may then raise ValueError, which is caught and reported.
apply_changes(b, name_text, mass_text) ==
    LET named  == [b EXCEPT !.name = name_text]
        parsed == ParseFloat(mass_text)
    IN  IF parsed.ok /\ parsed.value > 0
        THEN set_mass(named, parsed.value)
        ELSE named

\* apply_changes (the Apply Changes button, Return in an entry, or a mass preset).
ApplyChanges(name_text, mass_text) ==
    /\ EditorUsable
    /\ LET i == IndexOf(bodies, current_body)
       IN  /\ i # 0
           /\ name_text \in NameTexts \cup {bodies[i].name}
           /\ bodies' = [bodies EXCEPT
                            ![i] = apply_changes(bodies[i], name_text, mass_text)]
    /\ UNCHANGED <<trajectories, kosmos, mode, is_running, time_elapsed,
                   time_warp, editorVars, is_dragging_arrow, buttonVars,
                   history, cameraVars,
                     physicsVars, loopVars>>

\* toggle_velocity_arrow as it would be if it toggled the first body of the
\* list instead of the editor's body.
ToggleVelocityArrow_FirstBody ==
    /\ EditorUsable
    /\ ~auto_orbit_enabled
    /\ Len(bodies) > 0
    /\ bodies' = [bodies EXCEPT ![1].is_setting_velocity =
                                    ~bodies[1].is_setting_velocity]
    /\ UNCHANGED <<trajectories, kosmos, mode, is_running, time_elapsed,
                   time_warp, editorVars, is_dragging_arrow, buttonVars,
                   history, cameraVars, physicsVars, loopVars>>

\* toggle_velocity_arrow (the button of the manual velocity frame).
ToggleVelocityArrow ==
    /\ EditorUsable
    /\ ~auto_orbit_enabled
    /\ LET i == IndexOf(bodies, current_body)
       IN  /\ i # 0
           /\ bodies' = [bodies EXCEPT ![i].is_setting_velocity =
                                            ~bodies[i].is_setting_velocity]
    /\ UNCHANGED <<trajectories, kosmos, mode, is_running, time_elapsed,
                   time_warp, editorVars, is_dragging_arrow, buttonVars,
                   history, cameraVars,
                     physicsVars, loopVars>>

\* toggle_auto_orbit (the Auto Orbit check box).
ToggleAutoOrbit ==
    /\ EditorUsable
    /\ auto_orbit_enabled' = ~auto_orbit_enabled
    /\ auto_orbit_target' = IF auto_orbit_enabled THEN 0 ELSE auto_orbit_target
    /\ UNCHANGED <<simVars, time_warp, current_body, editor_shown,
                   is_selecting_orbit_target, is_dragging_arrow, buttonVars,
                   history, cameraVars,
                     physicsVars, loopVars>>

\* start_orbit_selection (the Select Target button of the auto-orbit frame).
StartOrbitSelection ==
    /\ EditorUsable
    /\ auto_orbit_enabled
    /\ is_selecting_orbit_target' = TRUE
    /\ UNCHANGED <<simVars, time_warp, current_body, editor_shown,
                   auto_orbit_enabled, auto_orbit_target, is_dragging_arrow,
                   buttonVars, history, cameraVars,
                     physicsVars, loopVars>>

\* The objects the editor's auto_orbit_target can be: the listed body of
\* that identity, or, for a body that is no longer listed, an object with the
\* mass and the position it had when it left the list.  The state does not
\* keep them: it is any body that a click or a preset makes.
OrbitTargets(target) ==
    IF \E i \in 1..Len(bodies) : bodies[i].id = target
    THEN {bodies[IndexOf(bodies, target)]}
    ELSE {CelestialBody(target, "", EarthMass, p, <<0, 0>>, 0) : p \in Points}
         \cup {CelestialBody(target, d[1], d[2], d[3], d[4], d[5]) :
                 d \in UNION {Range(PresetData(pid)) : pid \in PresetIds}}

\* apply_auto_orbit (the Apply Orbit button of the auto-orbit frame): the
\* velocity of a circular orbit round the target, kept on the grid.
ApplyAutoOrbit(clockwise) ==
    /\ EditorUsable
    /\ auto_orbit_enabled
    /\ IF auto_orbit_target = 0
       THEN UNCHANGED vars
       ELSE \E target \in OrbitTargets(auto_orbit_target) :
            LET i == IndexOf(bodies, current_body)
                central_pos == get_position(target)
                orbiting_pos == get_position(bodies[i])
                v == calculate_orbital_velocity_vector(
                        <<Fx(central_pos[1]), Fx(central_pos[2])>>,
                        <<Fx(orbiting_pos[1]), Fx(orbiting_pos[2])>>,
                        Fx(get_mass(target)), Fx(get_mass(bodies[i])),
                        G, clockwise)
                vel == <<Clip(TDiv(v[1], Resolution)),
                         Clip(TDiv(v[2], Resolution))>>
            IN  /\ bodies' = [bodies EXCEPT ![i] = set_velocity(bodies[i], vel)]
                /\ UNCHANGED <<trajectories, kosmos, mode, is_running,
                               time_elapsed, time_warp, editorVars,
                               is_dragging_arrow, buttonVars, history,
                               cameraVars, physicsVars, loopVars>>

\* delete_body, the question answered yes.
DeleteBody ==
    /\ EditorUsable
    /\ SetSim(remove_body(SimState, current_body))
    /\ current_body' = 0
    /\ UNCHANGED <<time_warp, editor_shown, auto_orbit_enabled,
                   auto_orbit_target, is_selecting_orbit_target,
                   is_dragging_arrow, buttonVars, history, cameraVars,
                     physicsVars, loopVars>>

\* ---------------------------------------------------- the control panel
\* toggle_mode (the Start button) with NBodyApp.on_mode_change.
ToggleMode ==
    /\ start_enabled
    /\ IF mode = GOD_MODE /\ Len(bodies) # 0
       THEN /\ SetSim([switch_to_simulation_mode(SimState)
                            EXCEPT !.is_running = TRUE])
            /\ start_enabled' = FALSE
            /\ play_pause_enabled' = TRUE
            /\ stop_enabled' = TRUE
            /\ clear_enabled' = FALSE
            /\ editor_shown' = FALSE
            /\ step_calls' = 0
            /\ frames' = 0
            /\ zoom_level' \in RenderedZooms(zoom_level,
                    [switch_to_simulation_mode(SimState)
                            EXCEPT !.is_running = TRUE])
            /\ UNCHANGED <<time_warp, current_body, auto_orbit_enabled,
                           auto_orbit_target, is_selecting_orbit_target,
                           is_dragging_arrow, cameraButZoom, physicsVars, loopVars>>
       ELSE UNCHANGED vars

\* toggle_play_pause (the Pause/Play button).
TogglePlayPause ==
    /\ play_pause_enabled
    /\ is_running' = ~is_running
    /\ UNCHANGED <<bodies, trajectories, kosmos, mode, time_elapsed, time_warp,
                   editorVars, is_dragging_arrow, buttonVars, history, cameraVars,
                     physicsVars, loopVars>>

\* stop_simulation (the Stop button) with NBodyApp.on_mode_change, which
\* finds the mode to be GOD_MODE: the editor is shown with no body set.
StopSimulation ==
    /\ stop_enabled
    /\ SetSim(switch_to_god_mode(SimState))
    /\ start_enabled' = TRUE
    /\ play_pause_enabled' = FALSE
    /\ stop_enabled' = FALSE
    /\ clear_enabled' = TRUE
    /\ editor_shown' = TRUE
    /\ current_body' = 0
    /\ step_calls' = 0
    /\ frames' = 0
    /\ UNCHANGED <<time_warp, auto_orbit_enabled, auto_orbit_target,
                   is_selecting_orbit_target, is_dragging_arrow, cameraVars,
                     physicsVars, loopVars>>

\* on_warp_change.
OnWarpChange(w) ==
    /\ time_warp' = w
    /\ UNCHANGED <<simVars, editorVars, is_dragging_arrow, buttonVars, history, cameraVars,
                     physicsVars, loopVars>>

\* ----------------------------------------------------- the application
\* clear_all_bodies (the Clear All button).
ClearAllBodies ==
    /\ clear_enabled
    /\ SetSim(clear_all(SimState))
    /\ current_body' = 0
    /\ is_dragging_arrow' = FALSE
    /\ step_calls' = 0
    /\ frames' = 0
    /\ UNCHANGED <<time_warp, editor_shown, auto_orbit_enabled,
                   auto_orbit_target, is_selecting_orbit_target, buttonVars, cameraVars,
                     physicsVars, loopVars>>

\* The bodies a preset builds, as new objects.
RECURSIVE PresetBodies(_, _, _)
PresetBodies(data, used, k) ==
    IF k > Len(data) THEN <<>>
    ELSE LET id == FreshId(used, 1)
             d  == data[k]
         IN  <<CelestialBody(id, d[1], d[2], d[3], d[4], d[5])>>
             \o PresetBodies(data, used \cup {id}, k + 1)

RECURSIVE AddBodies(_, _, _)
AddBodies(s, bs, k) ==
    IF k > Len(bs) THEN s ELSE AddBodies(add_body(s, bs[k]), bs, k + 1)

\* load_preset: clear_all, then add_body for every body of the preset.
load_preset(s, p, used) ==
    AddBodies(clear_all(s), PresetBodies(PresetData(p), used, 1), 1)

\* NBodyApp.load_preset: the bodies, then reset_view and render (in god mode)
\* and the editor's set_body(None).
LoadPreset(p) ==
    /\ Len(PresetData(p)) <= MaxBodies
    /\ SetSim(load_preset(SimState, p, UsedIds))
    /\ current_body' = 0
    /\ step_calls' = 0
    /\ frames' = 0
    /\ zoom_level' = DefaultZoom
    /\ UNCHANGED <<time_warp, editor_shown, auto_orbit_enabled,
                   auto_orbit_target, is_selecting_orbit_target,
                   is_dragging_arrow, buttonVars, cameraButZoom, physicsVars, loopVars>>

\* One frame of animation_loop: the steps of the frame when the simulation
\* is running, nothing otherwise.
animation_loop(s, warp) ==
    IF s.mode = SIMULATION_MODE /\ s.is_running
    THEN StepN(s, StepsPerFrame(warp))
    ELSE s

\* The number of step_simulation calls that frame makes.
FrameSteps(s, warp) ==
    IF s.mode = SIMULATION_MODE /\ s.is_running
    THEN StepsPerFrame(warp) ELSE 0

\* animation_loop as it would be if it asked for the next frame only after
\* a frame that stepped the simulation.
AnimationLoop_IdleStops ==
    /\ loop_scheduled
    /\ animation_running
    /\ FrameSteps(SimState, time_warp) > 0 => frames < MaxFrames
    /\ SetSim(animation_loop(SimState, time_warp))
    /\ step_calls' = step_calls + FrameSteps(SimState, time_warp)
    /\ frames' = IF FrameSteps(SimState, time_warp) > 0 THEN frames + 1 ELSE frames
    /\ zoom_level' \in
         IF FrameSteps(SimState, time_warp) > 0
         THEN RenderedZooms(zoom_level, animation_loop(SimState, time_warp))
         ELSE {zoom_level}
    /\ loop_scheduled' = (FrameSteps(SimState, time_warp) > 0)
    /\ UNCHANGED <<time_warp, editorVars, is_dragging_arrow, buttonVars,
                   cameraButZoom, physicsVars, animation_running>>

\* The timer callback: animation_loop runs when its call is pending.  It
\* returns at once when animation_running is off; otherwise it makes the
\* frame (steps, render) and asks for the next call with root.after.
AnimationLoop ==
    /\ loop_scheduled
    /\ IF ~animation_running
       THEN /\ loop_scheduled' = FALSE
            /\ UNCHANGED <<simVars, time_warp, editorVars, is_dragging_arrow,
                           buttonVars, history, cameraVars, physicsVars,
                           animation_running>>
       ELSE /\ FrameSteps(SimState, time_warp) > 0 => frames < MaxFrames
            /\ SetSim(animation_loop(SimState, time_warp))
            /\ step_calls' = step_calls + FrameSteps(SimState, time_warp)
            /\ frames' = IF FrameSteps(SimState, time_warp) > 0
                         THEN frames + 1 ELSE frames
            /\ zoom_level' \in
                 IF FrameSteps(SimState, time_warp) > 0
                 THEN RenderedZooms(zoom_level,
                                    animation_loop(SimState, time_warp))
                 ELSE {zoom_level}
            /\ loop_scheduled' = TRUE
            /\ UNCHANGED <<time_warp, editorVars, is_dragging_arrow,
                           buttonVars, cameraButZoom, physicsVars,
                           animation_running>>

\* ------------------------------------------------------------ the camera
\* The handlers of the camera's tracking flags, its focus and its zoom level.
notCamera == <<simVars, time_warp, editorVars, is_dragging_arrow, buttonVars,
               history, physicsVars, loopVars>>

\* on_mouse_move inside the axes while a pan is under way (simulation mode):
\* the pan switches every tracking mode off, so that its render finds none.
MouseMove ==
    /\ mode = SIMULATION_MODE
    /\ is_panning
    /\ auto_zoom_to_cog' = FALSE
    /\ capture_all_bodies' = FALSE
    /\ focus_body_mode' = FALSE
    /\ focused_body' =
         IF auto_zoom_to_cog \/ capture_all_bodies \/ focus_body_mode
         THEN 0 ELSE focused_body
    /\ UNCHANGED <<notCamera, is_panning, zoom_level, zooms>>

\* zoom_in (the zoom-in button): zoom_level *= 0.7, then render.
ZoomIn ==
    /\ zooms < MaxZooms
    /\ zoom_level' \in RenderedZooms((zoom_level * 7) \div 10, SimState)
    /\ zooms' = zooms + 1
    /\ UNCHANGED <<notCamera, is_panning, auto_zoom_to_cog, capture_all_bodies,
                   focus_body_mode, focused_body>>

\* zoom_out (the zoom-out button): zoom_level *= 1.3, then render.
ZoomOut ==
    /\ zooms < MaxZooms
    /\ zoom_level' \in RenderedZooms((zoom_level * 13) \div 10, SimState)
    /\ zooms' = zooms + 1
    /\ UNCHANGED <<notCamera, is_panning, auto_zoom_to_cog, capture_all_bodies,
                   focus_body_mode, focused_body>>

\* reset_view as it would be if it also paused the playback.
ResetView_Pausing ==
    /\ zoom_level' \in RenderedZooms(DefaultZoom, SimState)
    /\ is_running' = FALSE
    /\ UNCHANGED <<bodies, trajectories, kosmos, mode, time_elapsed,
                   time_warp, editorVars, is_dragging_arrow, buttonVars,
                   history, physicsVars, loopVars, is_panning, auto_zoom_to_cog,
                   capture_all_bodies, focus_body_mode, focused_body, zooms>>

\* reset_view (the Reset button): the default zoom, then render.
ResetView ==
    /\ zoom_level' \in RenderedZooms(DefaultZoom, SimState)
    /\ UNCHANGED <<notCamera, is_panning, auto_zoom_to_cog, capture_all_bodies,
                   focus_body_mode, focused_body, zooms>>

\* NBodyApp.toggle_auto_cog with SimulationCanvas.toggle_auto_zoom_cog
\* (the Auto CoG button).
ToggleAutoCog ==
    /\ auto_zoom_to_cog' = ~auto_zoom_to_cog
    /\ UNCHANGED <<notCamera, is_panning, capture_all_bodies, focus_body_mode,
                   focused_body, zoom_level, zooms>>

\* NBodyApp.toggle_capture_all with SimulationCanvas.toggle_capture_all
\* (the Capture All button).
ToggleCaptureAll ==
    /\ capture_all_bodies' = ~capture_all_bodies
    /\ UNCHANGED <<notCamera, is_panning, auto_zoom_to_cog, focus_body_mode,
                   focused_body, zoom_level, zooms>>

\* SimulationCanvas.set_focused_body: the camera record after the call,
\* body being an identity or 0 for None.
set_focused_body(cam, body) ==
    IF body # 0
    THEN [cam EXCEPT !.focused_body = body, !.focus_body_mode = TRUE,
                     !.auto_zoom_to_cog = FALSE, !.capture_all_bodies = FALSE]
    ELSE [cam EXCEPT !.focused_body = 0, !.focus_body_mode = FALSE]

\* The tracking flags and the focus as a record.
Camera ==
    [auto_zoom_to_cog |-> auto_zoom_to_cog,
     capture_all_bodies |-> capture_all_bodies,
     focus_body_mode |-> focus_body_mode, focused_body |-> focused_body]

\* The first body of that name, 0 when there is none.
FirstNamed(bs, name) ==
    IF \E i \in 1..Len(bs) : bs[i].name = name
    THEN CHOOSE i \in 1..Len(bs) :
            bs[i].name = name /\ \A j \in 1..(i - 1) : bs[j].name # name
    ELSE 0

\* on_focus_body_selected: the name chosen is "None" or the name of a body.
OnFocusBodySelected(selected_name) ==
    LET i   == FirstNamed(bodies, selected_name)
        cam == IF selected_name = "None" THEN set_focused_body(Camera, 0)
               ELSE IF i # 0 THEN set_focused_body(Camera, bodies[i].id)
               ELSE Camera
    IN  /\ auto_zoom_to_cog' = cam.auto_zoom_to_cog
        /\ capture_all_bodies' = cam.capture_all_bodies
        /\ focus_body_mode' = cam.focus_body_mode
        /\ focused_body' = cam.focused_body
        /\ UNCHANGED <<notCamera, is_panning, zoom_level, zooms>>

Next ==
    \/ \E p \in Points, button \in Buttons : CanvasClick(p, button)
    \/ \E p \in Points : MouseRelease(p)
    \/ \E name_text \in NameTexts \cup {bodies[i].name : i \in 1..Len(bodies)},
          mass_text \in MassTexts : ApplyChanges(name_text, mass_text)
    \/ ToggleVelocityArrow
    \/ DeleteBody
    \/ ToggleMode
    \/ TogglePlayPause
    \/ StopSimulation
    \/ \E w \in WarpOptions : OnWarpChange(w)
    \/ ClearAllBodies
    \/ \E p \in PresetIds : LoadPreset(p)
    \/ AnimationLoop

Spec == Init /\ [][Next]_vars

\* The program with the camera's handlers: the bodies are made by left
\* clicks and presets, and the editor only deletes.
CameraNext ==
    \/ \E p \in Points : CanvasClick(p, 1)
    \/ \E p \in Points : MouseRelease(p)
    \/ MouseMove
    \/ DeleteBody
    \/ ToggleMode
    \/ StopSimulation
    \/ \E p \in PresetIds : LoadPreset(p)
    \/ ZoomIn
    \/ ZoomOut
    \/ ResetView
    \/ ToggleAutoCog
    \/ ToggleCaptureAll
    \/ \E selected_name \in {"None"} \cup {bodies[i].name : i \in 1..Len(bodies)} :
            OnFocusBodySelected(selected_name)

CameraSpec == Init /\ [][CameraNext]_vars

\* The program with the handlers that change the view: bodies are made by
\* left clicks and presets, the mode is toggled, and the camera is moved,
\* zoomed, reset and set to follow.
ViewNext ==
    \/ \E p \in Points : CanvasClick(p, 1)
    \/ MouseMove
    \/ ToggleMode
    \/ \E p \in PresetIds : LoadPreset(p)
    \/ ZoomIn
    \/ ZoomOut
    \/ ResetView
    \/ ToggleAutoCog
    \/ ToggleCaptureAll

ViewSpec == Init /\ [][ViewNext]_vars

\* The program with the editor's auto-orbit handlers: bodies are made and
\* selected by left clicks and presets, and the editor deletes and applies
\* orbits.
OrbitNext ==
    \/ \E p \in Points : CanvasClick(p, 1)
    \/ ToggleAutoOrbit
    \/ StartOrbitSelection
    \/ \E clockwise \in BOOLEAN : ApplyAutoOrbit(clockwise)
    \/ DeleteBody
    \/ \E p \in PresetIds : LoadPreset(p)

OrbitSpec == Init /\ [][OrbitNext]_vars

\* The program during playback, with the timer: the Tk event loop runs the
\* pending animation_loop call, so a frame that stays possible is made.
PlaybackNext ==
    \/ \E p \in Points : CanvasClick(p, 1)
    \/ ToggleMode
    \/ TogglePlayPause
    \/ StopSimulation
    \/ \E w \in WarpOptions : OnWarpChange(w)
    \/ AnimationLoop

\* A frame that steps, seen through the frame count: of the handlers only
\* animation_loop changes frames, and it does when its call is pending and
\* the frame steps.  Tk runs a pending timer callback, so the frame is
\* made if it stays possible (weak fairness).
StepFrame ==
    /\ loop_scheduled
    /\ animation_running
    /\ FrameSteps(SimState, time_warp) > 0
    /\ frames < MaxFrames
    /\ frames' = frames + 1

PlaybackSpec == Init /\ [][PlaybackNext]_vars /\ WF_frames(StepFrame)

\* ------------------------------------------------- utils.physics, called
\* The functions of utils.physics applied to arguments drawn from bounded
\* sets: positions and masses as the editor passes them, and distances on
\* both sides of 0.
programVars == <<simVars, time_warp, editorVars, is_dragging_arrow,
                 buttonVars, history, cameraVars, loopVars>>

PhysicsPoints == {<<0, 0>>, <<Fx(1), 0>>, <<Fx(-1), Fx(1)>>, <<Fx(2), Fx(1)>>}
PhysicsMasses == {Fx(EarthMass), Fx(JupiterMass), Fx(SolarMass)}
PhysicsDistances == {Fx(-1), 0, Fx(1) \div 2, Fx(2)}

PhysicsInit ==
    /\ Constructed
    /\ physics_args \in [central_pos : PhysicsPoints,
                         orbiting_pos : PhysicsPoints,
                         central_mass : PhysicsMasses,
                         orbiting_mass : {0} \cup PhysicsMasses,
                         distance : PhysicsDistances]
    /\ physics_results = NoResults

CallOrbitalVelocity ==
    /\ physics_results' =
         [physics_results EXCEPT !.orbital_velocity =
            <<calculate_orbital_velocity(physics_args.central_mass,
                physics_args.orbiting_mass, physics_args.distance, G)>>]
    /\ UNCHANGED <<programVars, physics_args>>

CallEscapeVelocity ==
    /\ physics_results' =
         [physics_results EXCEPT !.escape_velocity =
            <<calculate_escape_velocity(physics_args.central_mass,
                physics_args.distance, G)>>]
    /\ UNCHANGED <<programVars, physics_args>>

CallOrbitalVelocityVector(clockwise) ==
    LET v == calculate_orbital_velocity_vector(physics_args.central_pos,
                 physics_args.orbiting_pos, physics_args.central_mass,
                 physics_args.orbiting_mass, G, clockwise)
    IN  /\ physics_results' =
             IF clockwise
             THEN [physics_results EXCEPT !.vector_clockwise = <<v>>]
             ELSE [physics_results EXCEPT !.vector = <<v>>]
        /\ UNCHANGED <<programVars, physics_args>>

PhysicsNext ==
    \/ CallOrbitalVelocity
    \/ CallEscapeVelocity
    \/ \E clockwise \in BOOLEAN : CallOrbitalVelocityVector(clockwise)

PhysicsSpec == PhysicsInit /\ [][PhysicsNext]_vars


\* ================================================================ claims
\* Values the setters are tried with.
MassValues == {EarthMass, JupiterMass, SolarMass}
Vectors == {<<0, 0>>, <<1, 1>>, <<-1, 0>>}

\* C1: round-trip law.  For every non-empty body set built by authoring,
\* switch_to_simulation_mode followed at once by switch_to_god_mode leaves
\* every body's (mass, position, velocity) as it was before the entry.
C1_RoundTrip ==
    (mode = GOD_MODE /\ Len(bodies) > 0) =>
        LET r == switch_to_god_mode(switch_to_simulation_mode(SimState))
        IN  /\ Len(r.bodies) = Len(bodies)
            /\ \A i \in 1..Len(bodies) : Physical(r.bodies[i]) = Physical(bodies[i])

\* C2: after every explicit authoring edit of a body (set_mass, set_position
\* or set_velocity) the body's initial snapshot equals its current
\* (mass, position, velocity).
C2_SnapshotFollowsEdits ==
    mode = GOD_MODE =>
        \A i \in 1..Len(bodies) :
            /\ \A m \in MassValues :
                InitialSnapshot(set_mass(bodies[i], m)) = Physical(set_mass(bodies[i], m))
            /\ \A p \in Vectors :
                InitialSnapshot(set_position(bodies[i], p))
                    = Physical(set_position(bodies[i], p))
            /\ \A v \in Vectors :
                InitialSnapshot(set_velocity(bodies[i], v))
                    = Physical(set_velocity(bodies[i], v))

\* bodies and trajectories of s are aligned: as many trajectories as bodies,
\* and every point of trajectories[i] was read from bodies[i].
Aligned(s) ==
    /\ Len(s.trajectories) = Len(s.bodies)
    /\ \A i \in 1..Len(s.trajectories) :
         \A k \in 1..Len(s.trajectories[i]) :
            /\ i <= Len(s.bodies)
            /\ s.trajectories[i][k].of = s.bodies[i].id

\* C3: alignment invariant.  In every reachable state, and after any further
\* call of add_body, remove_body, clear_all, switch_to_simulation_mode,
\* switch_to_god_mode or step_simulation, len(trajectories) = len(bodies)
\* and trajectories[i] is the trajectory of bodies[i].
C3_Alignment ==
    /\ Aligned(SimState)
    /\ Aligned(add_body(SimState,
                 CelestialBody(FreshId(UsedIds, 1), "New", EarthMass,
                               <<0, 0>>, <<0, 0>>, 0)))
    /\ \A id \in UsedIds \cup {FreshId(UsedIds, 1)} : Aligned(remove_body(SimState, id))
    /\ Aligned(clear_all(SimState))
    /\ Aligned(switch_to_simulation_mode(SimState))
    /\ Aligned(switch_to_god_mode(SimState))
    /\ Aligned(step_simulation(SimState))

\* Witness of C3: playback of two bodies, stepped, after a body was removed
\* and another added (the first body is not the first object created).
C3_Witness ==
    /\ mode = SIMULATION_MODE
    /\ Len(bodies) = 2
    /\ step_calls > 0
    /\ bodies[1].id # 1

\* C4: in playback, every trajectory has 1 + (step_simulation calls since the
\* last switch_to_simulation_mode) points and its last point is the body's
\* current position.
C4_TrajectoryLength ==
    mode = SIMULATION_MODE =>
        \A i \in 1..Len(bodies) :
            /\ Len(trajectories[i]) = 1 + step_calls
            /\ Last(trajectories[i]).pos = get_position(bodies[i])

\* Witness of C4: two frames at different time warps (10 steps and 1 step),
\* the bodies away from where they started.
C4_Witness ==
    /\ mode = SIMULATION_MODE
    /\ Len(bodies) = 2
    /\ step_calls = 11
    /\ \A i \in 1..2 : get_position(bodies[i]) # trajectories[i][1].pos

\* C5: entering playback with zero bodies is rejected, by the state machine's
\* own switch_to_simulation_mode too: mode stays GOD_MODE, no Kosmos is
\* created, nothing else changes.
C5_EmptyEntryRejected ==
    (mode = GOD_MODE /\ Len(bodies) = 0) =>
        switch_to_simulation_mode(SimState) = SimState

\* C6: a switch to simulation mode with at least one body seeds a Kosmos with
\* every body's current state in insertion order, makes each trajectory the
\* one point at its body's position, sets time_elapsed to 0 and the mode to
\* SIMULATION_MODE.
C6_Entry ==
    [][(mode = GOD_MODE /\ mode' = SIMULATION_MODE) =>
        /\ Len(bodies) > 0
        /\ bodies' = bodies
        /\ kosmos' = <<[i \in 1..Len(bodies) |-> bodies[i].nbody_body]>>
        /\ trajectories' = [i \in 1..Len(bodies) |-> <<Point(bodies[i])>>]
        /\ time_elapsed' = 0]_vars

\* Witness of C6: just after the entry, two bodies in different states.
C6_Witness ==
    /\ mode = SIMULATION_MODE
    /\ step_calls = 0
    /\ Len(bodies) = 2
    /\ bodies[1].nbody_body # bodies[2].nbody_body
    /\ kosmos = <<[i \in 1..2 |-> bodies[i].nbody_body]>>

\* C7: the switch back to god mode (the Stop button), from any playback state,
\* discards the Kosmos, resets every body to its initial snapshot, empties
\* every trajectory and sets time_elapsed = 0, is_running = FALSE and
\* mode = GOD_MODE.
C7_Exit ==
    [][(mode = SIMULATION_MODE /\ stop_enabled /\ ~stop_enabled') =>
        /\ kosmos' = <<>>
        /\ mode' = GOD_MODE
        /\ is_running' = FALSE
        /\ time_elapsed' = 0
        /\ Len(bodies') = Len(bodies)
        /\ \A i \in 1..Len(bodies) :
            /\ bodies'[i].id = bodies[i].id
            /\ Physical(bodies'[i]) = InitialSnapshot(bodies[i])
            /\ InitialSnapshot(bodies'[i]) = InitialSnapshot(bodies[i])
        /\ trajectories' = [i \in 1..Len(bodies) |-> <<>>]]_vars

\* Witness of C7: a running playback after steps, a body away from its
\* initial snapshot, the Stop button enabled.
C7_Witness ==
    /\ mode = SIMULATION_MODE
    /\ stop_enabled
    /\ is_running
    /\ step_calls > 0
    /\ \E i \in 1..Len(bodies) : Physical(bodies[i]) # InitialSnapshot(bodies[i])

\* C8: a step takes effect only in playback and only while running: where
\* mode = GOD_MODE or is_running = FALSE, step_simulation changes no body,
\* no trajectory and not time_elapsed.
C8_StepOnlyWhenRunning ==
    (mode = GOD_MODE \/ ~is_running) => step_simulation(SimState) = SimState

\* C9: time_elapsed is 0 on entry to playback and every step adds time_step:
\* in playback it is the sum of the time steps of the steps taken since the
\* entry, and it is never negative.
C9_ElapsedTime ==
    /\ time_elapsed >= 0
    /\ mode = SIMULATION_MODE => time_elapsed = step_calls * TimeStep

\* Witness of C9: eleven steps into a playback.
C9_Witness ==
    /\ mode = SIMULATION_MODE
    /\ step_calls = 11
    /\ time_elapsed = 11 * TimeStep

\* C10: the Kosmos is present exactly in simulation mode (absent in god mode,
\* initially and after clear_all).
C10_KosmosIffPlayback ==
    (kosmos # <<>>) <=> (mode = SIMULATION_MODE)

\* Witness of C10: god mode reached from a stepped playback by loading a
\* preset (clear_all): the buttons still show the playback.
C10_Witness ==
    /\ mode = GOD_MODE
    /\ kosmos = <<>>
    /\ stop_enabled
    /\ Len(bodies) > 0

\* A body that is not in bodies yet, as add_body receives it.
NewBody ==
    CelestialBody(FreshId(UsedIds, 1), "New", EarthMass, <<0, 0>>, <<0, 0>>, 0)

\* C11: collection edits are for god mode only.  In simulation mode
\* add_body, remove_body, clear_all and the loading of a preset (clear_all and
\* add_body) change neither the bodies sequence nor the mode.
C11_EditsOnlyInGodMode ==
    mode = SIMULATION_MODE =>
        /\ add_body(SimState, NewBody).bodies = bodies
        /\ \A i \in 1..Len(bodies) :
            remove_body(SimState, bodies[i].id).bodies = bodies
        /\ clear_all(SimState).bodies = bodies
        /\ clear_all(SimState).mode = mode
        /\ \A p \in PresetIds :
            /\ load_preset(SimState, p, UsedIds).bodies = bodies
            /\ load_preset(SimState, p, UsedIds).mode = mode

\* C12: in simulation mode every body holds the integrator's state of the
\* same index, and set_position or set_velocity asked for in simulation mode
\* leaves the body unchanged.
C12_BodiesFollowIntegrator ==
    mode = SIMULATION_MODE =>
        /\ kosmos # <<>>
        /\ Len(kosmos[1]) = Len(bodies)
        /\ \A i \in 1..Len(bodies) :
            /\ bodies[i].nbody_body = kosmos[1][i]
            /\ \A v \in Vectors :
                /\ set_position(bodies[i], v) = bodies[i]
                /\ set_velocity(bodies[i], v) = bodies[i]

\* Masses that must be refused.
BadMasses == {-1, 0}

\* C13: a mass of 0 or less is refused and the mass stays as it was, by
\* set_mass itself and by the editor's apply_changes, so every body of every
\* reachable state has a mass above 0.
C13_MassStaysPositive ==
    \A i \in 1..Len(bodies) :
        /\ get_mass(bodies[i]) > 0
        /\ \A text \in {"-1", "0"} :
            get_mass(apply_changes(bodies[i], bodies[i].name, text))
                = get_mass(bodies[i])
        /\ \A m \in BadMasses :
            get_mass(set_mass(bodies[i], m)) = get_mass(bodies[i])

\* Mass texts that apply_changes refuses.
RefusedMassTexts == {"abc", "-1", "0"}

\* C14: a refused apply_changes (mass not a number, or not above 0) leaves
\* every attribute of the edited body as it was, the name included.
C14_RefusedEditChangesNothing ==
    \A i \in 1..Len(bodies) :
        \A name_text \in NameTexts \cup {bodies[i].name} :
            \A mass_text \in RefusedMassTexts :
                apply_changes(bodies[i], name_text, mass_text) = bodies[i]

\* C15: set_mass(value) with value > 0 makes value the body's mass, keeps its
\* position and velocity, and makes the whole initial snapshot (mass,
\* position, velocity) the body's current values.
C15_SetMassRefreshesSnapshot ==
    mode = GOD_MODE =>
        \A i \in 1..Len(bodies) :
            \A m \in MassValues :
                LET b == set_mass(bodies[i], m)
                IN  /\ get_mass(b) = m
                    /\ get_position(b) = get_position(bodies[i])
                    /\ get_velocity(b) = get_velocity(bodies[i])
                    /\ InitialSnapshot(b) = Physical(b)

\* C16: add_body(b) and then remove_body(b), b a new entity, gives back the
\* state before the add: bodies and trajectories have their lengths of
\* before and every other body keeps its index and its trajectory.
C16_AddThenRemove ==
    LET r == remove_body(add_body(SimState, NewBody), NewBody.id)
    IN  /\ Len(r.bodies) = Len(bodies)
        /\ Len(r.trajectories) = Len(trajectories)
        /\ r.bodies = bodies
        /\ r.trajectories = trajectories
        /\ r = SimState

\* Witness of C16: two other bodies with trajectories of their own (a
\* stepped playback), told apart by their positions.
C16_Witness ==
    /\ Len(bodies) = 2
    /\ Len(trajectories[1]) > 1
    /\ trajectories[1] # trajectories[2]
    /\ get_position(bodies[1]) # get_position(bodies[2])

\* C17: clear_all, from any reachable state, leaves no body, no trajectory
\* and no Kosmos, with is_running FALSE, time_elapsed 0 and the mode GOD_MODE.
C17_ClearAll ==
    LET r == clear_all(SimState)
    IN  /\ r.bodies = <<>>
        /\ r.trajectories = <<>>
        /\ r.kosmos = <<>>
        /\ r.is_running = FALSE
        /\ r.time_elapsed = 0
        /\ r.mode = GOD_MODE

\* Witness of C17: a running playback of two bodies, stepped.
C17_Witness ==
    /\ mode = SIMULATION_MODE
    /\ is_running
    /\ kosmos # <<>>
    /\ time_elapsed > 0
    /\ Len(bodies) = 2
    /\ Len(trajectories[2]) > 1

\* C18: single selection.  In every reachable state at most one body has
\* is_selected = TRUE.
C18_SingleSelection ==
    Cardinality({i \in 1..Len(bodies) : bodies[i].is_selected}) <= 1

\* Witness of C18: the first of two bodies is the selected one, so it was
\* selected again by a click after the second body was created and selected.
C18_Witness ==
    /\ Len(bodies) = 2
    /\ bodies[1].id < bodies[2].id
    /\ bodies[1].is_selected
    /\ ~bodies[2].is_selected

\* C19: at most one of the tracking modes auto_zoom_to_cog,
\* capture_all_bodies and focus_body_mode is on.
C19_OneTrackingMode ==
    /\ ~(auto_zoom_to_cog /\ capture_all_bodies)
    /\ ~(auto_zoom_to_cog /\ focus_body_mode)
    /\ ~(capture_all_bodies /\ focus_body_mode)

\* C20: after a pan drag, zoom_in or zoom_out every tracking mode is off.
C20_ManualOverride ==
    [][(MouseMove \/ ZoomIn \/ ZoomOut) =>
        /\ ~auto_zoom_to_cog'
        /\ ~capture_all_bodies'
        /\ ~focus_body_mode']_vars

\* C21: the focus never dangles.  In every reachable state focus_body_mode
\* implies that focused_body is one of bodies (deleting the focused body,
\* clear_all or a preset load turn the focus off).
C21_FocusNeverDangles ==
    focus_body_mode => \E i \in 1..Len(bodies) : bodies[i].id = focused_body

\* C22: a step whose integrator call raises is not applied in part:
\* time_elapsed, every body and every trajectory are as before the call,
\* whatever the failed call left inside the Kosmos.
C22_FailedStepChangesNothing ==
    (mode = SIMULATION_MODE /\ kosmos # <<>>) =>
        \A k \in {kosmos[1], KosmosStep(kosmos[1], TimeStep)} :
            LET r == step_simulation_raising(SimState, k)
            IN  /\ r.time_elapsed = time_elapsed
                /\ r.bodies = bodies
                /\ r.trajectories = trajectories
                /\ r.mode = mode
                /\ r.is_running = is_running

\* Witness of C22: a running playback, stepped, in which a step that
\* succeeds moves a body.
C22_Witness ==
    /\ mode = SIMULATION_MODE
    /\ is_running
    /\ step_calls > 0
    /\ step_simulation(SimState).bodies # bodies
    /\ KosmosStep(kosmos[1], TimeStep) # kosmos[1]

\* C25: within one step every body holds its updated state before any
\* trajectory is appended: when trajectories[k] takes its point, no body
\* after k still holds its state of before the step.
C25_AllUpdatedBeforeAppend ==
    (mode = SIMULATION_MODE /\ kosmos # <<>> /\ Len(kosmos[1]) = Len(bodies)) =>
        LET updated == KosmosStep(kosmos[1], TimeStep)
        IN  \A k \in 1..Len(bodies) :
                \A j \in (k + 1)..Len(bodies) :
                    LoopState(SimState, updated, k).bodies[j].nbody_body
                        = updated[j]

\* The state with a second entity equal to bodies[i] in name, mass, position
\* and velocity, added after it.
Twin(i) == [bodies[i] EXCEPT !.id = FreshId(UsedIds, 1)]
WithTwin(i) == add_body(SimState, Twin(i))

\* C27: remove_body removes by identity.  With two entities equal in name,
\* mass, position and velocity in bodies, remove_body(b) removes b and the
\* trajectory at b's index; the other entity and its trajectory stay.
C27_RemoveByIdentity ==
    \A i \in 1..Len(bodies) :
        LET n == Len(bodies)
            r == remove_body(WithTwin(i), Twin(i).id)
            q == remove_body(WithTwin(i), bodies[i].id)
        IN  /\ r.bodies = bodies
            /\ r.trajectories = trajectories
            /\ Len(q.bodies) = n
            /\ q.bodies[n] = Twin(i)
            /\ q.trajectories[n] = <<>>
            /\ \A j \in 1..n :
                /\ j < i => q.bodies[j] = bodies[j]
                            /\ q.trajectories[j] = trajectories[j]
                /\ (i <= j /\ j < n) => q.bodies[j] = bodies[j + 1]
                                        /\ q.trajectories[j] = trajectories[j + 1]

\* Witness of C27: two bodies in a stepped playback, the first one's
\* trajectory not empty, so that its twin's trajectory differs from it.
C27_Witness ==
    /\ Len(bodies) = 2
    /\ step_calls > 0
    /\ trajectories[1] # <<>>
    /\ bodies[1].name # bodies[2].name

\* C28: remove_body of a body that is not in bodies changes nothing.
C28_RemoveAbsent ==
    \A id \in {FreshId(UsedIds, 1), FreshId(UsedIds, 2)} :
        remove_body(SimState, id) = SimState

\* Witness of C28: two bodies with trajectories in playback and an absent
\* body to ask for.
C28_Witness ==
    /\ Len(bodies) = 2
    /\ mode = SIMULATION_MODE
    /\ time_elapsed > 0
    /\ \A i \in 1..2 : bodies[i].id # FreshId(UsedIds, 1)

\* The entities of a body list, in order: identity, name and colour.
Entities(bs) == [i \in 1..Len(bs) |-> <<bs[i].id, bs[i].name, bs[i].color>>]

\* C29: switch_to_simulation_mode, step_simulation and switch_to_god_mode keep
\* the order and the identity of bodies: bodies[i] is the same entity (same
\* name and colour) after them, and after a frame of steps.
C29_BodiesOrderKept ==
    /\ Entities(switch_to_simulation_mode(SimState).bodies) = Entities(bodies)
    /\ Entities(step_simulation(SimState).bodies) = Entities(bodies)
    /\ Entities(switch_to_god_mode(SimState).bodies) = Entities(bodies)
    /\ Entities(switch_to_god_mode(StepN(switch_to_simulation_mode(SimState), 3)).bodies)
        = Entities(bodies)

\* Witness of C29: two bodies of different names in a stepped playback.
C29_Witness ==
    /\ mode = SIMULATION_MODE
    /\ Len(bodies) = 2
    /\ step_calls > 10
    /\ bodies[1].name # bodies[2].name
    /\ bodies[1].color # bodies[2].color

\* Positive time warps, in hundredths: 0.01x, 0.1x, 0.17x, 0.5x, 1x, 10x
\* and 1000x.
WarpValues == {1, 10, 17, 50, 100, 1000, 100000}

\* A number of hundredths rounded to the nearest whole.
Round(x) == (x + 50) \div 100

\* C26: for every positive time warp a frame of a running playback makes
\* clamp(round(10 * time_warp), 1, 1000) steps, a number between 1 and 1000;
\* any other frame makes none.
C26_StepsPerFrame ==
    /\ \A w \in WarpValues :
        /\ StepsPerFrame(w) \in 1..1000
        /\ StepsPerFrame(w) = Max(1, Min(Round(10 * w), 1000))
    /\ FrameSteps(SimState, time_warp) =
        IF mode = SIMULATION_MODE /\ is_running
        THEN Max(1, Min(Round(10 * time_warp), 1000)) ELSE 0

\* The magnitude of a velocity vector.
Magnitude(v) == FSqrt(FMul(v[1], v[1]) + FMul(v[2], v[2]))

\* v and w are each other's negation, component by component, and of equal
\* magnitude.
Mirrored(v, w) ==
    /\ v[1] = -w[1]
    /\ v[2] = -w[2]
    /\ Magnitude(v) = Magnitude(w)

\* C23: mirror symmetry.  For distinct central and orbiting positions,
\* calculate_orbital_velocity_vector with clockwise False and with clockwise
\* True returns vectors of equal magnitude whose x components and whose y
\* components are exact negations of each other.
C23_MirrorSymmetry ==
    (physics_args.central_pos # physics_args.orbiting_pos) =>
        /\ Mirrored(
             calculate_orbital_velocity_vector(physics_args.central_pos,
                 physics_args.orbiting_pos, physics_args.central_mass,
                 physics_args.orbiting_mass, G, FALSE),
             calculate_orbital_velocity_vector(physics_args.central_pos,
                 physics_args.orbiting_pos, physics_args.central_mass,
                 physics_args.orbiting_mass, G, TRUE))
        /\ (physics_results.vector # <<>>
              /\ physics_results.vector_clockwise # <<>>) =>
             Mirrored(physics_results.vector[1],
                      physics_results.vector_clockwise[1])

\* Both calls were made on distinct positions, and neither component of the
\* vectors is 0.
C23_Witness ==
    /\ physics_args.central_pos # physics_args.orbiting_pos
    /\ physics_results.vector # <<>>
    /\ physics_results.vector_clockwise # <<>>
    /\ physics_results.vector[1][1] # 0
    /\ physics_results.vector[1][2] # 0

\* C24: degenerate orbital inputs yield zero.  calculate_orbital_velocity and
\* calculate_escape_velocity return 0 whenever distance <= 0, and
\* calculate_orbital_velocity_vector returns (0, 0) whenever the central and
\* the orbiting position coincide.
C24_DegenerateIsZero ==
    /\ (physics_args.distance <= 0) =>
        /\ calculate_orbital_velocity(physics_args.central_mass,
               physics_args.orbiting_mass, physics_args.distance, G) = 0
        /\ calculate_escape_velocity(physics_args.central_mass,
               physics_args.distance, G) = 0
        /\ physics_results.orbital_velocity \in {<<>>, <<0>>}
        /\ physics_results.escape_velocity \in {<<>>, <<0>>}
    /\ (physics_args.central_pos = physics_args.orbiting_pos) =>
        /\ \A clockwise \in BOOLEAN :
             calculate_orbital_velocity_vector(physics_args.central_pos,
                 physics_args.orbiting_pos, physics_args.central_mass,
                 physics_args.orbiting_mass, G, clockwise) = <<0, 0>>
        /\ physics_results.vector \in {<<>>, << <<0, 0>> >>}
        /\ physics_results.vector_clockwise \in {<<>>, << <<0, 0>> >>}

\* All four calls were made, on a distance of 0 or less and on coincident
\* positions.
C24_Witness ==
    /\ physics_args.distance <= 0
    /\ physics_args.central_pos = physics_args.orbiting_pos
    /\ physics_results.orbital_velocity # <<>>
    /\ physics_results.escape_velocity # <<>>
    /\ physics_results.vector # <<>>
    /\ physics_results.vector_clockwise # <<>>

\* The frame counters and the view centres render is applied to.
MaxFrameCounter == 19
ViewCenters == {<<0, 0>>, <<Fx(1), -Fx(1)>>}

\* bs with every body's mass set to m.
AllMasses(bs, m) == [i \in 1..Len(bs) |-> set_mass(bs[i], m)]

\* The body lists center_to_cog is applied to: the bodies, the bodies with
\* the first one's mass changed, the bodies with all masses 0, and none.
CogBodies ==
    {bodies, <<>>, AllMasses(bodies, 0)}
        \cup {IF bodies = <<>> THEN bodies
              ELSE [bodies EXCEPT ![1] = set_mass(bodies[1], m)] :
                 m \in MassValues}

\* c is the mass-weighted centroid of bs, to the resolution of the centre:
\* on each axis c * (sum of masses) is within one sum of masses of the sum
\* of mass * position.
IsCentroid(c, bs) ==
    LET M == TotalMass(bs)
        S(axis) == Moment(bs, axis)
    IN  \A axis \in {1, 2} : Abs(c[axis] * M - S(axis)) < M

\* C30: when auto_zoom_to_cog is the tracking mode in force, a render moves
\* the view centre only if the frame counter it has raised is a multiple of
\* 10, and then to the mass-weighted centroid of all bodies; with no bodies
\* or a total mass of 0 the centre stays where it was.
C30_CogCadence ==
    (mode = SIMULATION_MODE /\ auto_zoom_to_cog
        /\ ~capture_all_bodies /\ ~focus_body_mode) =>
      \A n \in 0..MaxFrameCounter, c \in ViewCenters, bs \in CogBodies :
        LET v == render(View(n, c, zoom_level), [SimState EXCEPT !.bodies = bs])
        IN  /\ v.frame_counter = n + 1
            /\ v.zoom_level = zoom_level
            /\ IF (n + 1) % 10 = 0 /\ bs # <<>> /\ TotalMass(bs) > 0
               THEN IsCentroid(v.center, bs)
               ELSE v.center = c

\* Simulation mode with auto_zoom_to_cog alone and bodies whose centroid is
\* not the view centre: the render that makes the counter 10 moves the
\* centre there, the render before it does not.
C30_Witness ==
    /\ mode = SIMULATION_MODE
    /\ auto_zoom_to_cog /\ ~capture_all_bodies /\ ~focus_body_mode
    /\ Len(bodies) >= 2
    /\ render(View(9, <<0, 0>>, zoom_level), SimState).center # <<0, 0>>
    /\ render(View(8, <<0, 0>>, zoom_level), SimState).center = <<0, 0>>

\* The body lists zoom_to_capture_all is applied to: the bodies, and the
\* bodies with the first one moved to each of a few positions.
FitPositions == {<<-2, 1>>, <<0, 0>>, <<2, -1>>}
FitBodies ==
    {bodies} \cup {IF bodies = <<>> THEN bodies
                   ELSE [bodies EXCEPT ![1] = set_position(bodies[1], p)] :
                      p \in FitPositions}

\* The bounding box of the positions of bs on one axis, in thousandths.
BoxLow(bs, axis) ==
    CHOOSE x \in {Fx(get_position(bs[i])[axis]) : i \in 1..Len(bs)} :
        \A j \in 1..Len(bs) : x <= Fx(get_position(bs[j])[axis])
BoxHigh(bs, axis) ==
    CHOOSE x \in {Fx(get_position(bs[i])[axis]) : i \in 1..Len(bs)} :
        \A j \in 1..Len(bs) : x >= Fx(get_position(bs[j])[axis])
LargerExtent(bs) ==
    Max(BoxHigh(bs, 1) - BoxLow(bs, 1), BoxHigh(bs, 2) - BoxLow(bs, 2))

\* The centre of v is the midpoint of the bounding box of bs (to the
\* resolution of the centre).
AtBoxMidpoint(v, bs) ==
    \A axis \in {1, 2} :
        Abs(2 * v.center[axis] - (BoxLow(bs, axis) + BoxHigh(bs, axis))) <= 1

\* The zoom of v is half the larger extent of bs after a 20% expansion on
\* each side, 0.7 of the extent, in astronomical units (to the resolution
\* of the zoom level).
HalfPaddedExtent(v, bs) ==
    Abs(10 * FMul(v.zoom_level, AU) - 7 * LargerExtent(bs)) <= 20

\* C31 as stated: zoom_to_capture_all with at least one body sets the centre
\* to the midpoint of the bounding box and the zoom to half the larger
\* padded extent; with no bodies it changes neither centre nor zoom.
C31_FitAll_AsStated ==
    \A c \in ViewCenters, bs \in FitBodies \cup {<<>>} :
        LET view == View(0, c, zoom_level)
            v == zoom_to_capture_all(view, bs)
        IN  IF bs = <<>> THEN v = view
            ELSE AtBoxMidpoint(v, bs) /\ HalfPaddedExtent(v, bs)

\* C31, amended: as stated when the bodies do not all coincide; when they
\* do (one body, or all at one point) the centre is that point and the zoom
\* is the default 3.0.
C31_FitAll ==
    \A c \in ViewCenters, bs \in FitBodies \cup {<<>>} :
        LET view == View(0, c, zoom_level)
            v == zoom_to_capture_all(view, bs)
        IN  IF bs = <<>> THEN v = view
            ELSE /\ AtBoxMidpoint(v, bs)
                 /\ IF LargerExtent(bs) > 0 THEN HalfPaddedExtent(v, bs)
                    ELSE v.zoom_level = DefaultZoom
                 /\ v.frame_counter = view.frame_counter

\* Simulation mode with capture_all_bodies alone and bodies apart: the
\* render of the mode switch has fitted the zoom.
C31_Witness ==
    /\ mode = SIMULATION_MODE
    /\ capture_all_bodies /\ ~auto_zoom_to_cog /\ ~focus_body_mode
    /\ Len(bodies) >= 2
    /\ LargerExtent(bodies) > 0
    /\ zoom_level # DefaultZoom
    /\ zoom_level =
         zoom_to_capture_all(View(0, <<0, 0>>, DefaultZoom), bodies).zoom_level

\* The handlers of the camera: pan, zoom_in, zoom_out, reset_view.
CameraOps == MouseMove \/ ZoomIn \/ ZoomOut \/ ResetView

\* C32: the camera's operations never change the simulation state: bodies
\* (with every body's mass, position and velocity), trajectories, mode,
\* is_running and time_elapsed are after them what they were before.
C32_CameraLeavesSimulation ==
    [][CameraOps => UNCHANGED <<bodies, trajectories, kosmos, mode,
                                is_running, time_elapsed>>]_vars

\* A zoom button was pressed during playback with bodies and trails there.
C32_Witness ==
    /\ mode = SIMULATION_MODE
    /\ zooms > 0
    /\ Len(bodies) > 0
    /\ Len(trajectories) = Len(bodies)

\* C33: after zoom_to_capture_all with at least one body every body lies
\* inside the square view (|x - center_x| <= zoom_level * AU and the same
\* for y) and zoom_level is above 0, one body and coincident bodies
\* included.
C33_AllBodiesInView ==
    \A c \in ViewCenters, bs \in FitBodies :
        bs # <<>> =>
            LET v == zoom_to_capture_all(View(0, c, zoom_level), bs)
                limit == FMul(v.zoom_level, AU)
            IN  /\ v.zoom_level > 0
                /\ \A i \in 1..Len(bs), axis \in {1, 2} :
                     Abs(Fx(get_position(bs[i])[axis]) - v.center[axis])
                        <= limit

\* Simulation mode with capture_all_bodies alone: the render of the mode
\* switch has fitted the view to bodies that are apart, so that some body is
\* away from the centre of the fitted view.
C33_Witness ==
    /\ mode = SIMULATION_MODE
    /\ capture_all_bodies /\ ~auto_zoom_to_cog /\ ~focus_body_mode
    /\ LET v == zoom_to_capture_all(View(0, <<0, 0>>, DefaultZoom), bodies)
       IN  /\ zoom_level = v.zoom_level
           /\ \E i \in 1..Len(bodies) :
                Fx(get_position(bodies[i])[1]) # v.center[1]

\* C34: running implies playback.  In every state reached through the GUI
\* (Start, Pause/Play, Stop, Clear All, preset load) is_running is true only
\* when mode is SIMULATION_MODE.
C34_RunningImpliesPlayback ==
    is_running => mode = SIMULATION_MODE

\* C35: the buttons match the mode.  Start and Clear All are enabled exactly
\* in GOD_MODE, Pause/Play and Stop exactly in SIMULATION_MODE, also after a
\* preset is loaded during playback.
C35_ButtonsMatchMode ==
    /\ start_enabled <=> (mode = GOD_MODE)
    /\ clear_enabled <=> (mode = GOD_MODE)
    /\ play_pause_enabled <=> (mode = SIMULATION_MODE)
    /\ stop_enabled <=> (mode = SIMULATION_MODE)

\* C36: a body is never its own orbit target.  Whenever apply_auto_orbit
\* computes a velocity (the Apply Orbit button can be pressed, with a body
\* in the editor and a target set), auto_orbit_target is a member of bodies
\* and is not current_body.
C36_OrbitTargetValid ==
    (EditorUsable /\ auto_orbit_enabled /\ auto_orbit_target # 0) =>
        /\ \E i \in 1..Len(bodies) : bodies[i].id = auto_orbit_target
        /\ auto_orbit_target # current_body

\* The indices of the bodies that are setting their velocity, and of the
\* selected bodies.
SettingVelocity(bs) == {i \in 1..Len(bs) : bs[i].is_setting_velocity}
Selected(bs) == {i \in 1..Len(bs) : bs[i].is_selected}

\* C37: velocity-editing exclusivity.  In every reachable state a body with
\* is_setting_velocity true is the selected body, and while there is such a
\* body a canvas click in god mode neither adds a body nor changes which
\* body is selected.
C37_VelocityEditingExclusive ==
    /\ [](\A i \in SettingVelocity(bodies) :
            /\ bodies[i].is_selected
            /\ get_selected_body(SimState) = i)
    /\ [][(/\ mode = GOD_MODE
           /\ SettingVelocity(bodies) # {}
           /\ \E p \in Points, button \in Buttons : CanvasClick(p, button))
          => /\ Len(bodies') = Len(bodies)
             /\ Selected(bodies') = Selected(bodies)
             /\ \A i \in 1..Len(bodies) : bodies'[i].id = bodies[i].id]_vars

\* Two bodies in god mode, one of them setting its velocity, and a click has
\* started the drag of its arrow.
C37_Witness ==
    /\ mode = GOD_MODE
    /\ Len(bodies) >= 2
    /\ SettingVelocity(bodies) # {}
    /\ is_dragging_arrow

\* C38: the mode switches change nothing when the mode is already the
\* target.  switch_to_simulation_mode in SIMULATION_MODE leaves
\* time_elapsed, the trajectories and the Kosmos as they are, and
\* switch_to_god_mode in GOD_MODE resets no body and changes nothing else.
C38_SwitchesIdempotent ==
    /\ mode = SIMULATION_MODE =>
          switch_to_simulation_mode(SimState) = SimState
    /\ mode = GOD_MODE => switch_to_god_mode(SimState) = SimState
    /\ switch_to_simulation_mode(switch_to_simulation_mode(SimState))
          = switch_to_simulation_mode(SimState)
    /\ switch_to_god_mode(switch_to_god_mode(SimState))
          = switch_to_god_mode(SimState)

\* Playback with time elapsed and trails grown, which a second entry would
\* have reset.
C38_Witness ==
    /\ mode = SIMULATION_MODE
    /\ time_elapsed > 0
    /\ \E i \in 1..Len(trajectories) : Len(trajectories[i]) > 1
    /\ switch_to_simulation_mode_Unguarded(SimState) # SimState

\* The values time_elapsed takes within n frames that step.
RECURSIVE FrameTimes(_)
FrameTimes(n) ==
    IF n = 0 THEN {0}
    ELSE FrameTimes(n - 1) \cup
         {t + StepsPerFrame(w) * TimeStep :
              t \in FrameTimes(n - 1), w \in WarpOptions}

ElapsedTimes == FrameTimes(MaxFrames)

====
